---------------------------- MODULE Spec2Model ----------------------------
(***************************************************************************)
(* Model of src/main.py: an interactive invoice collector (get_items,      *)
(* get_invoice_details) followed by a fixed-layout spreadsheet renderer    *)
(* (create_invoice).                                                       *)
(*                                                                         *)
(* Text is modelled by TLA+ strings, read character by character with      *)
(* SubSeq.  Python floats are modelled by exact decimals with FracDigits   *)
(* fractional digits: a record [w, f] stands for w + f / Unit with         *)
(* 0 <= f < Unit.  The hours texts that are typed in carry at most         *)
(* FracDigits fractional digits and no total is a decimal tie that a       *)
(* binary float would resolve differently, so on the inputs of this        *)
(* model the exact arithmetic and Python's float arithmetic print the      *)
(* same strings.                                                           *)
(***************************************************************************)
EXTENDS Integers, Sequences, FiniteSets, TLC

\* Number of fractional decimal digits the modelled numbers carry.
FracDigits == 5

Unit == 10 ^ FracDigits

-----------------------------------------------------------------------------
(* Characters and strings *)

Char(s, i) == SubSeq(s, i, i)

Digits == "0123456789"
UpperLetters == "ABCDEFGHIJKLMNOPQRSTUVWXYZ"
LowerLetters == "abcdefghijklmnopqrstuvwxyz"

IndexIn(c, alphabet) ==
    IF \E i \in 1..Len(alphabet) : Char(alphabet, i) = c
    THEN CHOOSE i \in 1..Len(alphabet) : Char(alphabet, i) = c
    ELSE 0

IsDigit(c) == IndexIn(c, Digits) > 0
DigitVal(c) == IndexIn(c, Digits) - 1
IsUpper(c) == IndexIn(c, UpperLetters) > 0
IsLower(c) == IndexIn(c, LowerLetters) > 0
IsCased(c) == IsUpper(c) \/ IsLower(c)

LowerChar(c) == IF IsUpper(c) THEN Char(LowerLetters, IndexIn(c, UpperLetters)) ELSE c
UpperChar(c) == IF IsLower(c) THEN Char(UpperLetters, IndexIn(c, LowerLetters)) ELSE c

\* Mutant of Lower: the answer is compared as typed, .lower() forgotten.
LowerForgotten(s) == s

\* str.lower(): every cased character is replaced by its lowercase form.
RECURSIVE Lower(_)
Lower(s) ==
    IF Len(s) = 0 THEN ""
    ELSE LowerChar(Char(s, 1)) \o Lower(SubSeq(s, 2, Len(s)))

\* str.title(): a cased character that follows an uncased one (or starts the
\* string) is uppercased, every other cased character is lowercased.
RECURSIVE TitleFrom(_, _)
TitleFrom(s, prevCased) ==
    IF Len(s) = 0 THEN ""
    ELSE LET c == Char(s, 1)
         IN (IF prevCased THEN LowerChar(c) ELSE UpperChar(c))
            \o TitleFrom(SubSeq(s, 2, Len(s)), IsCased(c))

Title(s) == TitleFrom(s, FALSE)

\* str.replace(' ', '_')
RECURSIVE ReplaceSpaces(_)
ReplaceSpaces(s) ==
    IF Len(s) = 0 THEN ""
    ELSE (IF Char(s, 1) = " " THEN "_" ELSE Char(s, 1))
         \o ReplaceSpaces(SubSeq(s, 2, Len(s)))

-----------------------------------------------------------------------------
(* Numbers: w + f / Unit, 0 <= f < Unit *)

DecOfInt(n) == [w |-> n, f |-> 0]
Zero == DecOfInt(0)

Neg(d) == IF d.f = 0 THEN [w |-> 0 - d.w, f |-> 0]
          ELSE [w |-> 0 - d.w - 1, f |-> Unit - d.f]

IsNegative(d) == d.w < 0
Abs(d) == IF IsNegative(d) THEN Neg(d) ELSE d

\* d * k for a whole number k >= 0 (hours * rate, hours * 60, hours * 3600)
Times(d, k) == [w |-> d.w * k + (d.f * k) \div Unit, f |-> (d.f * k) % Unit]

Plus(a, b) == [w |-> a.w + b.w + (a.f + b.f) \div Unit, f |-> (a.f + b.f) % Unit]

\* x % 60 on floats: the result has the sign of the divisor, 0 <= r < 60.
Mod60(d) == [w |-> d.w % 60, f |-> d.f]

\* int(x): truncation toward zero.
IntOf(d) == IF d.w < 0 /\ d.f > 0 THEN d.w + 1 ELSE d.w

-----------------------------------------------------------------------------
(* Formatting *)

\* Mutant of FmtInt02: the format spec is dropped, f"{n}".
FmtIntUnpadded(n) == IF n < 0 THEN "-" \o ToString(0 - n) ELSE ToString(n)

\* f"{n:02}" for an int: the decimal numeral, zero-padded to a minimum width
\* of 2 (a minus sign counts toward the width); never truncated.
FmtInt02(n) ==
    IF n < 0 THEN "-" \o ToString(0 - n)
    ELSE IF n < 10 THEN "0" \o ToString(n)
    ELSE ToString(n)

\* The number of cents nearest to a non-negative d, ties to the even cent.
RoundCents(d) ==
    LET q == (d.f * 100) \div Unit
        r == (d.f * 100) % Unit
        c == d.w * 100 + q
    IN IF 2 * r > Unit \/ (2 * r = Unit /\ c % 2 = 1) THEN c + 1 ELSE c

\* f"{x:.2f}": sign, whole part, ".", two digits.
Fmt2f(d) ==
    LET c == RoundCents(Abs(d))
    IN (IF IsNegative(d) THEN "-" ELSE "")
       \o ToString(c \div 100) \o "." \o FmtInt02(c % 100)

\* f"${x:.2f}"
FmtMoney(d) == "$" \o Fmt2f(d)

\* f'{int(h):02}:{int((h * 60) % 60):02}:{int((h * 3600) % 60):02}'
FmtRunTime(hours) ==
    FmtInt02(IntOf(hours)) \o ":"
    \o FmtInt02(IntOf(Mod60(Times(hours, 60)))) \o ":"
    \o FmtInt02(IntOf(Mod60(Times(hours, 3600))))

-----------------------------------------------------------------------------
(* float(text) *)

RECURSIVE LStrip(_)
LStrip(s) == IF Len(s) > 0 /\ Char(s, 1) = " " THEN LStrip(SubSeq(s, 2, Len(s))) ELSE s

RECURSIVE RStrip(_)
RStrip(s) == IF Len(s) > 0 /\ Char(s, Len(s)) = " "
             THEN RStrip(SubSeq(s, 1, Len(s) - 1)) ELSE s

Strip(s) == RStrip(LStrip(s))

RECURSIVE AllDigits(_)
AllDigits(s) == Len(s) = 0 \/ (IsDigit(Char(s, 1)) /\ AllDigits(SubSeq(s, 2, Len(s))))

RECURSIVE NumeralVal(_)
NumeralVal(s) ==
    IF Len(s) = 0 THEN 0
    ELSE NumeralVal(SubSeq(s, 1, Len(s) - 1)) * 10 + DigitVal(Char(s, Len(s)))

\* Position of the first "." of s, 0 when it has none.
DotAt(s) == IndexIn(".", s)

\* The fractional digits fs as a numerator over Unit; digits past FracDigits
\* are below the resolution of the model and dropped.
FracNum(fs) ==
    IF Len(fs) <= FracDigits THEN NumeralVal(fs) * 10 ^ (FracDigits - Len(fs))
    ELSE NumeralVal(SubSeq(fs, 1, FracDigits))

\* float(text) on texts made of spaces, signs, digits, dots and other
\* characters: surrounding blanks are stripped, one optional sign, then
\* digits with at most one dot and at least one digit.  Anything else raises
\* ValueError (ok = FALSE).  Exponents, "inf", "nan" and digit-group
\* underscores are outside the alphabet of the modelled inputs.
ParseFloat(text) ==
    LET s == Strip(text)
        signed == Len(s) > 0 /\ Char(s, 1) \in {"+", "-"}
        negative == signed /\ Char(s, 1) = "-"
        body == IF signed THEN SubSeq(s, 2, Len(s)) ELSE s
        dot == DotAt(body)
        whole == IF dot = 0 THEN body ELSE SubSeq(body, 1, dot - 1)
        frac == IF dot = 0 THEN "" ELSE SubSeq(body, dot + 1, Len(body))
        ok == /\ AllDigits(whole)
              /\ AllDigits(frac)
              /\ Len(whole) + Len(frac) > 0
        mag == [w |-> NumeralVal(whole), f |-> FracNum(frac)]
    IN IF ok THEN [ok |-> TRUE, value |-> IF negative THEN Neg(mag) ELSE mag]
       ELSE [ok |-> FALSE, value |-> Zero]

-----------------------------------------------------------------------------
(* Configuration and inputs *)

\* A value that may be None: <<>> is None, <<v>> is the value v.
None == <<>>
Some(v) == <<v>>
IsNone(o) == o = <<>>
Val(o) == o[1]

\* DEFAULT_RATES, in insertion (= iteration) order; rates in whole dollars.
DEFAULT_RATES ==
    << [work_type |-> "audiobook editing", rate |-> 50],
       [work_type |-> "audiobook proofing", rate |-> 25],
       [work_type |-> "extra editing", rate |-> 50] >>

\* rates_dict.keys()
Keys(rates) == [i \in 1..Len(rates) |-> rates[i].work_type]

\* rates_dict[work_type]
Lookup(rates, work_type) ==
    rates[CHOOSE i \in 1..Len(rates) : rates[i].work_type = work_type].rate

\* NAME, ADDRESS, CITY_STATE_ZIP, SOCIAL_HANDLE: os.getenv gives the value, or
\* None for a variable that is not set.
Environments ==
    { [NAME |-> Some("Kyle Gaffney"), ADDRESS |-> Some("12 Studio Lane"),
       CITY_STATE_ZIP |-> Some("Portland, OR 97201"), SOCIAL_HANDLE |-> Some("@kg")],
      [NAME |-> None, ADDRESS |-> None, CITY_STATE_ZIP |-> None, SOCIAL_HANDLE |-> None] }

\* datetime.now() as strftime prints it: "%Y%m%d" and "%m-%d-%y".
TodayYmd == "20240305"
TodayMdy == "03-05-24"

\* What the user may type at each prompt.
CustomerNames == {"Jane Doe", ""}
CustomerAddresses == {"4 Elm Street, Springfield"}
InvoiceDates == {"2024-03-01"}
BookTitles == {"Sample Title", ""}
Answers == {"yes", "YES", "Yes", "y", "no", "", "true"}
HoursTexts == {"2", "1.5", "0", "abc", "-2", "100", ".00008"}

-----------------------------------------------------------------------------
(* State *)

VARIABLES
    pc,                \* the statement the run is at
    env,               \* NAME, ADDRESS, CITY_STATE_ZIP, SOCIAL_HANDLE
    customer_name, customer_address, invoice_date, book_title,
    idx,               \* position of get_items' loop in rates_dict.keys()
    line,              \* the line input() returned last
    performed,         \* get_items' local: the lowercased answer
    items,             \* get_items' list
    total_amount,      \* create_invoice's local, None before it is computed
    filename,          \* create_invoice's local
    sheet,             \* the "Invoice" sheet: <<row, column>> -> value or None
    widths,            \* sheet.column_dimensions: column letter -> width
    files,             \* names of the files saved to disk, in order
    log,               \* history: prompts, prints and file events, in order
    inputs             \* history: what was typed for each work-type

vars == << pc, env, customer_name, customer_address, invoice_date, book_title,
           idx, line, performed, items, total_amount, filename, sheet, widths,
           files, log, inputs >>

rates_dict == DEFAULT_RATES

\* The spellings of the word yes, letter case ignored.
YesSpellings == {"yes", "yeS", "yEs", "yES", "Yes", "YeS", "YEs", "YES"}

Event(e, k) == [e |-> e, k |-> k]

Init ==
    /\ pc = "customer_name"
    /\ env \in Environments
    /\ customer_name = ""
    /\ customer_address = ""
    /\ invoice_date = ""
    /\ book_title = ""
    /\ idx = 1
    /\ line = ""
    /\ performed = ""
    /\ items = << >>
    /\ total_amount = None
    /\ filename = ""
    /\ sheet = << >>
    /\ widths = << >>
    /\ files = << >>
    /\ log = << >>
    /\ inputs = << >>

-----------------------------------------------------------------------------
(* get_invoice_details: the four header prompts *)

AskCustomerName ==
    /\ pc = "customer_name"
    /\ \E text \in CustomerNames :
          /\ line' = text
          /\ customer_name' = text
    /\ log' = Append(log, Event("prompt customer name", 0))
    /\ pc' = "customer_address"
    /\ UNCHANGED << env, customer_address, invoice_date, book_title, idx, performed,
                    items, total_amount, filename, sheet, widths, files, inputs >>

AskCustomerAddress ==
    /\ pc = "customer_address"
    /\ \E text \in CustomerAddresses :
          /\ line' = text
          /\ customer_address' = text
    /\ log' = Append(log, Event("prompt customer address", 0))
    /\ pc' = "invoice_date"
    /\ UNCHANGED << env, customer_name, invoice_date, book_title, idx, performed,
                    items, total_amount, filename, sheet, widths, files, inputs >>

AskInvoiceDate ==
    /\ pc = "invoice_date"
    /\ \E text \in InvoiceDates :
          /\ line' = text
          /\ invoice_date' = text
    /\ log' = Append(log, Event("prompt invoice date", 0))
    /\ pc' = "book_title"
    /\ UNCHANGED << env, customer_name, customer_address, book_title, idx, performed,
                    items, total_amount, filename, sheet, widths, files, inputs >>

\* The last header prompt; get_items(DEFAULT_RATES) starts with items = [].
AskBookTitle ==
    /\ pc = "book_title"
    /\ \E text \in BookTitles :
          /\ line' = text
          /\ book_title' = text
    /\ log' = Append(log, Event("prompt book title", 0))
    /\ items' = << >>
    /\ idx' = 1
    /\ pc' = "performed"
    /\ UNCHANGED << env, customer_name, customer_address, invoice_date, performed,
                    total_amount, filename, sheet, widths, files, inputs >>

-----------------------------------------------------------------------------
(* get_items *)

\* performed = input(f"Did you perform: {work_type}? ").lower(), then the test
\* performed == "yes": on any other answer the loop goes to the next key.
AskPerformed ==
    /\ pc = "performed"
    /\ idx <= Len(Keys(rates_dict))
    /\ \E answer \in Answers :
          /\ line' = answer
          /\ performed' = Lower(answer)
          /\ inputs' = Append(inputs, [work_type |-> Keys(rates_dict)[idx],
                                       affirmative |-> answer \in YesSpellings,
                                       hours_text |-> None])
    /\ log' = Append(log, Event("prompt performed", idx))
    /\ IF performed' = "yes"
       THEN pc' = "hours" /\ idx' = idx
       ELSE pc' = "performed" /\ idx' = idx + 1
    /\ UNCHANGED << env, customer_name, customer_address, invoice_date, book_title,
                    items, total_amount, filename, sheet, widths, files >>

\* Mutant of NewItem: "+" typed for "*" in the total.
NewItemSummed(work_type, hours) ==
    LET rate == Lookup(rates_dict, work_type)
    IN [work_type |-> work_type, hours |-> hours, rate |-> rate,
        total_price |-> Plus(hours, DecOfInt(rate))]

\* The item get_items appends for work_type and the parsed hours.
NewItem(work_type, hours) ==
    LET rate == Lookup(rates_dict, work_type)
    IN [work_type |-> work_type, hours |-> hours, rate |-> rate,
        total_price |-> Times(hours, rate)]

\* Mutant of AskHours: no try/except around float(), ValueError ends the run.
AskHoursUncaught ==
    /\ pc = "hours"
    /\ \E text \in HoursTexts :
          /\ line' = text
          /\ inputs' = [inputs EXCEPT ![Len(inputs)].hours_text = Some(text)]
          /\ LET parsed == ParseFloat(text)
             IN IF parsed.ok
                THEN /\ items' = Append(items, [work_type |-> Keys(rates_dict)[idx],
                                                hours |-> parsed.value,
                                                rate |-> Lookup(rates_dict, Keys(rates_dict)[idx]),
                                                total_price |-> Times(parsed.value,
                                                    Lookup(rates_dict, Keys(rates_dict)[idx]))])
                     /\ log' = Append(log, Event("prompt hours", idx))
                     /\ idx' = idx + 1
                     /\ pc' = "performed"
                ELSE /\ items' = items
                     /\ log' = log \o << Event("prompt hours", idx),
                                         Event("ValueError raised", idx) >>
                     /\ idx' = idx
                     /\ pc' = "crashed"
    /\ UNCHANGED << env, customer_name, customer_address, invoice_date, book_title,
                    performed, total_amount, filename, sheet, widths, files >>

\* hours = float(input("Enter hours: ")): the item is appended, or ValueError
\* is caught and the message printed; either way the loop goes on.
AskHours ==
    /\ pc = "hours"
    /\ \E text \in HoursTexts :
          /\ line' = text
          /\ inputs' = [inputs EXCEPT ![Len(inputs)].hours_text = Some(text)]
          /\ LET parsed == ParseFloat(text)
             IN IF parsed.ok
                THEN /\ items' = Append(items, NewItem(Keys(rates_dict)[idx], parsed.value))
                     /\ log' = Append(log, Event("prompt hours", idx))
                ELSE /\ items' = items
                     /\ log' = log \o << Event("prompt hours", idx),
                                         Event("print invalid hours", idx) >>
    /\ idx' = idx + 1
    /\ pc' = "performed"
    /\ UNCHANGED << env, customer_name, customer_address, invoice_date, book_title,
                    performed, total_amount, filename, sheet, widths, files >>

\* Mutant of ReturnItems: "return items" indented into the loop body, so the
\* function returns once the first work-type has been handled.
ReturnItemsEarly ==
    /\ pc = "performed"
    /\ idx > 1
    /\ performed' = ""
    /\ line' = ""
    /\ pc' = "total"
    /\ UNCHANGED << env, customer_name, customer_address, invoice_date, book_title,
                    idx, items, total_amount, filename, sheet, widths, files, log,
                    inputs >>

\* The loop is over: get_items returns items, get_invoice_details returns the
\* record and main calls create_invoice with it.
ReturnItems ==
    /\ pc = "performed"
    /\ idx > Len(Keys(rates_dict))
    /\ performed' = ""
    /\ line' = ""
    /\ pc' = "total"
    /\ UNCHANGED << env, customer_name, customer_address, invoice_date, book_title,
                    idx, items, total_amount, filename, sheet, widths, files, log,
                    inputs >>

\* input() raises (end of input, an interrupt): nothing catches it.
PromptStates == {"customer_name", "customer_address", "invoice_date", "book_title",
                 "performed", "hours"}

InputFails ==
    /\ pc \in PromptStates
    /\ ~(pc = "performed" /\ idx > Len(Keys(rates_dict)))
    /\ pc' = "crashed"
    /\ log' = Append(log, Event("input raised", 0))
    /\ UNCHANGED << env, customer_name, customer_address, invoice_date, book_title,
                    idx, line, performed, items, total_amount, filename, sheet,
                    widths, files, inputs >>

-----------------------------------------------------------------------------
(* create_invoice *)

\* df["Total Price"].sum()
RECURSIVE SumTotals(_)
SumTotals(its) ==
    IF its = << >> THEN Zero
    ELSE Plus(SumTotals(SubSeq(its, 1, Len(its) - 1)), its[Len(its)].total_price)

\* f"invoice_{customer_name.replace(' ', '_')}_{invoice_date}_{timestamp}.xlsx"
FileName(name, date) ==
    "invoice_" \o ReplaceSpaces(name) \o "_" \o date \o "_" \o TodayYmd \o ".xlsx"

\* df = pd.DataFrame(items); total_amount = df["Total Price"].sum(); filename.
\* A frame built from an empty list has no columns, so the column lookup
\* raises KeyError, which nothing catches.
ComputeTotal ==
    /\ pc = "total"
    /\ IF items = << >>
       THEN /\ pc' = "crashed"
            /\ log' = Append(log, Event("KeyError raised", 0))
            /\ UNCHANGED << total_amount, filename >>
       ELSE /\ total_amount' = Some(SumTotals(items))
            /\ filename' = FileName(customer_name, invoice_date)
            /\ pc' = "open"
            /\ log' = log
    /\ UNCHANGED << env, customer_name, customer_address, invoice_date, book_title,
                    idx, line, performed, items, sheet, widths, files, inputs >>

\* with pd.ExcelWriter(filename, engine='openpyxl') as writer: the file is
\* opened for writing; workbook.create_sheet("Invoice") gives an empty sheet.
OpenWriter ==
    /\ pc = "open"
    /\ log' = Append(log, Event("file opened", 0))
    /\ sheet' = << >>
    /\ pc' = "layout"
    /\ UNCHANGED << env, customer_name, customer_address, invoice_date, book_title,
                    idx, line, performed, items, total_amount, filename, widths,
                    files, inputs >>

\* The file cannot be opened (an I/O error): the exception ends the run.
OpenWriterFails ==
    /\ pc = "open"
    /\ log' = Append(log, Event("OSError raised", 0))
    /\ pc' = "crashed"
    /\ UNCHANGED << env, customer_name, customer_address, invoice_date, book_title,
                    idx, line, performed, items, total_amount, filename, sheet,
                    widths, files, inputs >>

\* sheet["A1"] = value: the cell holds value, None included.
Assign(sh, row, col, value) ==
    [c \in DOMAIN sh \cup {<< row, col >>} |->
        IF c = << row, col >> THEN value ELSE sh[c]]

\* sheet.cell(row=, column=, value=): the cell is created; a value that is
\* None is not stored, so what the cell held stays.
CellWrite(sh, row, col, value) ==
    IF IsNone(value) /\ << row, col >> \in DOMAIN sh THEN sh
    ELSE Assign(sh, row, col, value)

\* The header block, the bill-to block and the invoice block.
WriteHeader(sh, e, name, address, date) ==
    LET s1 == Assign(sh, 1, 1, e.NAME)
        s2 == Assign(s1, 2, 1, e.ADDRESS)
        s3 == Assign(s2, 3, 1, e.CITY_STATE_ZIP)
        s4 == Assign(s3, 4, 1, e.SOCIAL_HANDLE)
        s5 == Assign(s4, 6, 1, Some("Bill To:"))
        s6 == Assign(s5, 6, 2, Some(name))
        s7 == Assign(s6, 7, 2, Some(address))
        s8 == Assign(s7, 1, 4, Some("INVOICE"))
        s9 == Assign(s8, 3, 4, Some("INVOICE NUMBER"))
        s10 == Assign(s9, 3, 5, Some("KG " \o TodayMdy))
        s11 == Assign(s10, 4, 4, Some("INVOICE DATE"))
    IN Assign(s11, 4, 5, Some(date))

itemized_header == << "Date", "Description", "Total Run Time", "Rate", "Total" >>

\* for col_num, header in enumerate(itemized_header, 1): row 9
RECURSIVE WriteColumnHeaders(_, _)
WriteColumnHeaders(sh, col_num) ==
    IF col_num > Len(itemized_header) THEN sh
    ELSE WriteColumnHeaders(Assign(sh, 9, col_num, Some(itemized_header[col_num])),
                            col_num + 1)

\* sheet.cell(row=10, column=2, value=book_title)
WriteBookTitle(sh, title) == CellWrite(sh, 10, 2, Some(title))

\* The five cells of one item row.
WriteItemRow(sh, row_num, date, item) ==
    LET s1 == CellWrite(sh, row_num, 1, Some(date))
        s2 == CellWrite(s1, row_num, 2, Some(Title(item.work_type)))
        s3 == CellWrite(s2, row_num, 3, Some(FmtRunTime(item.hours)))
        s4 == CellWrite(s3, row_num, 4, Some(FmtMoney(DecOfInt(item.rate))))
    IN CellWrite(s4, row_num, 5, Some(FmtMoney(item.total_price)))

\* The row the first item is written in.
FirstItemRow == 11

\* for item in items: ... row_num += 1, from the k-th item on.  Gives the
\* sheet and the value row_num ends with.
RECURSIVE WriteItems(_, _, _, _, _)
WriteItems(sh, its, k, row_num, date) ==
    IF k > Len(its) THEN [sheet |-> sh, row_num |-> row_num]
    ELSE WriteItems(WriteItemRow(sh, row_num, date, its[k]), its, k + 1, row_num + 1, date)

\* Mutant of WriteFooter: the footer rows are counted from the last item row
\* instead of from row_num.
WriteFooterOverLastRow(sh, row_num, total, e) ==
    LET s1 == CellWrite(sh, row_num - 1, 4, Some("TOTAL"))
        s2 == CellWrite(s1, row_num - 1, 5, Some(FmtMoney(total)))
        s3 == CellWrite(s2, row_num, 5, Some("Please Pay"))
        s4 == CellWrite(s3, row_num + 2, 2, Some("Make All Checks Payable To:"))
        s5 == CellWrite(s4, row_num + 3, 2, e.NAME)
        s6 == CellWrite(s5, row_num + 4, 2, e.ADDRESS)
    IN CellWrite(s6, row_num + 5, 2, e.CITY_STATE_ZIP)

\* The TOTAL row, "Please Pay" and the payment instructions.
WriteFooter(sh, row_num, total, e) ==
    LET s1 == CellWrite(sh, row_num + 1, 4, Some("TOTAL"))
        s2 == CellWrite(s1, row_num + 1, 5, Some(FmtMoney(total)))
        s3 == CellWrite(s2, row_num + 2, 5, Some("Please Pay"))
        s4 == CellWrite(s3, row_num + 4, 2, Some("Make All Checks Payable To:"))
        s5 == CellWrite(s4, row_num + 5, 2, e.NAME)
        s6 == CellWrite(s5, row_num + 6, 2, e.ADDRESS)
    IN CellWrite(s6, row_num + 7, 2, e.CITY_STATE_ZIP)

Max(a, b) == IF a >= b THEN a ELSE b

\* sheet.max_row and sheet.max_column
MaxRow(sh) == CHOOSE r \in {c[1] : c \in DOMAIN sh} : \A c \in DOMAIN sh : c[1] <= r
MaxColumn(sh) == CHOOSE k \in {c[2] : c \in DOMAIN sh} : \A c \in DOMAIN sh : c[2] <= k

\* The value of a cell of the grid; a cell never written holds None.
CellValue(sh, row, col) == IF << row, col >> \in DOMAIN sh THEN sh[<< row, col >>] ELSE None

\* if cell.value: a value that is not None and not the empty string.
Truthy(value) == ~IsNone(value) /\ Val(value) # ""

\* Mutant of MaxLength: max_length = len(str(cell.value)), the max() dropped, so
\* the last cell that holds a value decides.
RECURSIVE MaxLengthOfLast(_, _, _, _, _)
MaxLengthOfLast(sh, col, row, last_row, max_length) ==
    IF row > last_row THEN max_length
    ELSE LET value == CellValue(sh, row, col)
         IN MaxLengthOfLast(sh, col, row + 1, last_row,
                            IF Truthy(value) THEN Len(Val(value)) ELSE max_length)

\* for cell in col: if cell.value: max_length = max(max_length, len(str(cell.value)))
\* over the cells of rows row..last_row, with max_length so far.
RECURSIVE MaxLength(_, _, _, _, _)
MaxLength(sh, col, row, last_row, max_length) ==
    IF row > last_row THEN max_length
    ELSE LET value == CellValue(sh, row, col)
         IN MaxLength(sh, col, row + 1, last_row,
                      IF Truthy(value) THEN Max(max_length, Len(Val(value)))
                      ELSE max_length)

\* The padding added to the longest text of a column.
WidthPadding == 2

\* get_column_letter for the first columns
ColumnLetters == "ABCDEFGHIJ"
get_column_letter(col) == Char(ColumnLetters, col)

\* for col in sheet.columns: ... sheet.column_dimensions[column].width = max_length + 2
ColumnWidths(sh) ==
    LET last_row == MaxRow(sh)
    IN [letter \in {get_column_letter(col) : col \in 1..MaxColumn(sh)} |->
           LET col == IndexIn(letter, ColumnLetters)
           IN MaxLength(sh, col, 1, last_row, 0) + WidthPadding]

\* The body of the with block: every cell write, then the column widths.
RenderSheet(sh, e, name, address, date, title, its, total) ==
    LET s1 == WriteHeader(sh, e, name, address, date)
        s2 == WriteColumnHeaders(s1, 1)
        s3 == WriteBookTitle(s2, title)
        rows == WriteItems(s3, its, 1, FirstItemRow, date)
    IN WriteFooter(rows.sheet, rows.row_num, total, e)

Layout ==
    /\ pc = "layout"
    /\ sheet' = RenderSheet(sheet, env, customer_name, customer_address, invoice_date,
                            book_title, items, Val(total_amount))
    /\ widths' = ColumnWidths(sheet')
    /\ pc' = "save"
    /\ UNCHANGED << env, customer_name, customer_address, invoice_date, book_title,
                    idx, line, performed, items, total_amount, filename, files, log,
                    inputs >>

\* Leaving the with block: the writer saves the workbook and closes the file.
SaveWorkbook ==
    /\ pc = "save"
    /\ files' = Append(files, filename)
    /\ log' = Append(log, Event("file written", 0))
    /\ pc' = "print"
    /\ UNCHANGED << env, customer_name, customer_address, invoice_date, book_title,
                    idx, line, performed, items, total_amount, filename, sheet,
                    widths, inputs >>

\* print(f"Invoice created and saved as '{filename}'"); main returns.
PrintSaved ==
    /\ pc = "print"
    /\ log' = Append(log, Event("print saved", 0))
    /\ pc' = "done"
    /\ UNCHANGED << env, customer_name, customer_address, invoice_date, book_title,
                    idx, line, performed, items, total_amount, filename, sheet,
                    widths, files, inputs >>

Next ==
    \/ AskCustomerName
    \/ AskCustomerAddress
    \/ AskInvoiceDate
    \/ AskBookTitle
    \/ AskPerformed
    \/ AskHours
    \/ ReturnItems
    \/ InputFails
    \/ ComputeTotal
    \/ OpenWriter
    \/ OpenWriterFails
    \/ Layout
    \/ SaveWorkbook
    \/ PrintSaved

Spec == Init /\ [][Next]_vars

-----------------------------------------------------------------------------
(* Vocabulary of the properties *)

IsPrefix(a, b) == Len(a) <= Len(b) /\ SubSeq(b, 1, Len(a)) = a

NumTypes == Len(DEFAULT_RATES)

\* The work-types of a sequence of items or of input entries, in order.
WorkTypes(seq) == [i \in 1..Len(seq) |-> seq[i].work_type]

\* create_invoice has written every cell and set the widths.
Rendered == pc \in {"save", "print", "done"}

\* The text a cell holds; "" stands for a cell that holds no value.
TextAt(row, col) ==
    IF << row, col >> \in DOMAIN sheet /\ sheet[<< row, col >>] # None
    THEN sheet[<< row, col >>][1] ELSE ""

HoldsValue(row, col) == << row, col >> \in DOMAIN sheet /\ sheet[<< row, col >>] # None

\* The row the k-th item is written in.
ItemRow(k) == 10 + k

\* The prompts and file events of the log, without the printed messages.
IsProtocolEvent(ev) ==
    ev.e \in {"prompt customer name", "prompt customer address", "prompt invoice date",
              "prompt book title", "prompt performed", "prompt hours",
              "file opened", "file written"}

Protocol == SelectSeq(log, IsProtocolEvent)

-----------------------------------------------------------------------------
(* C1 *)

C1Wanted(entry) ==
    /\ entry.affirmative
    /\ entry.hours_text # None
    /\ ParseFloat(entry.hours_text[1]).ok
    /\ ~IsNegative(ParseFloat(entry.hours_text[1]).value)

\* C1: the items are exactly the work-types that were affirmed with an hours
\* text that is a non-negative decimal; a negative hours text gives no item.
C1_ItemsAreNonNegativeAffirmed ==
    WorkTypes(items) = WorkTypes(SelectSeq(inputs, C1Wanted))

-----------------------------------------------------------------------------
(* C2 *)

\* hours added to itself n times, by halving n: x * n = (x * (n \div 2)) twice,
\* plus x when n is odd.
RECURSIVE RepeatedSum(_, _)
RepeatedSum(hours, n) ==
    IF n = 0 THEN Zero
    ELSE LET half == RepeatedSum(hours, n \div 2)
             twice == [w |-> half.w + half.w + (half.f + half.f) \div Unit,
                       f |-> (half.f + half.f) % Unit]
         IN IF n % 2 = 0 THEN twice
            ELSE [w |-> twice.w + hours.w + (twice.f + hours.f) \div Unit,
                  f |-> (twice.f + hours.f) % Unit]

RatePosition(work_type) ==
    CHOOSE k \in 1..NumTypes : DEFAULT_RATES[k].work_type = work_type

C2_ItemsWellFormed ==
    /\ \A i \in 1..Len(items) :
          /\ \E k \in 1..NumTypes : /\ DEFAULT_RATES[k].work_type = items[i].work_type
                                    /\ DEFAULT_RATES[k].rate = items[i].rate
          /\ items[i].total_price = RepeatedSum(items[i].hours, items[i].rate)
    /\ \A i, j \in 1..Len(items) :
          i < j => RatePosition(items[i].work_type) < RatePosition(items[j].work_type)

\* C2: at every point items holds at most one item per work-type, in
\* rate-table order, each with the table's rate and total = hours x rate, and
\* a step never changes or removes an item that is already in the list.
C2_ItemsOrderedAndStable ==
    /\ [] C2_ItemsWellFormed
    /\ [][IsPrefix(items, items')]_vars

C2_Witness ==
    /\ pc = "done"
    /\ Len(items) = 3
    /\ items[2].hours = [w |-> 1, f |-> Unit \div 2]
    /\ items[2].total_price = [w |-> 37, f |-> Unit \div 2]

-----------------------------------------------------------------------------
(* C3 *)

\* The number of cents a money string "$12.34" or "$-12.34" shows.
CentsShown(text) ==
    LET negative == Char(text, 2) = "-"
        body == SubSeq(text, IF negative THEN 3 ELSE 2, Len(text))
        dot == IndexIn(".", body)
        cents == NumeralVal(SubSeq(body, 1, dot - 1)) * 100
                 + NumeralVal(SubSeq(body, dot + 1, Len(body)))
    IN IF negative THEN 0 - cents ELSE cents

RECURSIVE SumShownTotals(_)
SumShownTotals(k) ==
    IF k = 0 THEN 0 ELSE SumShownTotals(k - 1) + CentsShown(TextAt(ItemRow(k), 5))

\* C3: for a non-empty item list the grand total shown in the TOTAL row is the
\* sum of the totals shown in the item rows, to the cent.
C3_ShownTotalIsSumOfShownTotals ==
    (Rendered /\ Len(items) > 0) =>
        CentsShown(TextAt(ItemRow(Len(items)) + 2, 5)) = SumShownTotals(Len(items))

-----------------------------------------------------------------------------
(* C4 *)

\* create_invoice has run its first statements.
TotalStepTaken == idx > NumTypes /\ pc \notin {"performed", "total"}

\* C4: with an empty item list create_invoice completes normally: grand total
\* 0, TOTAL row "$0.00", no item row, output file written.
C4_EmptyInvoiceCompletes ==
    (items = << >> /\ TotalStepTaken) =>
        /\ pc # "crashed"
        /\ total_amount = Some(Zero)
        /\ pc = "done" => /\ Len(files) = 1
                          /\ TextAt(FirstItemRow + 1, 5) = "$0.00"
                          /\ ~HoldsValue(FirstItemRow, 3)

-----------------------------------------------------------------------------
(* C5 *)

\* A step that reads the answer to "Did you perform ...?".
AnswerRead == Len(inputs') = Len(inputs) + 1

C5_AnswerDecides ==
    AnswerRead =>
        /\ line' \in {"yes", "YES", "Yes"} => pc' = "hours"
        /\ line' \in {"y", "no", "", "true"} => pc' = "performed"
        /\ line' \in YesSpellings <=> pc' = "hours"
        /\ pc' = "hours" => idx' = idx /\ items' = items
        /\ pc' # "hours" => pc' = "performed" /\ idx' = idx + 1 /\ items' = items

C5_DeclinedLeavesNothing ==
    \A k \in 1..Len(inputs) :
        ~inputs[k].affirmative =>
            /\ inputs[k].hours_text = None
            /\ \A i \in 1..Len(items) : items[i].work_type # inputs[k].work_type
            /\ \A i \in 1..Len(log) : log[i] # Event("prompt hours", k)

\* C5: an answer confirms exactly when it is the word yes in any letter case;
\* after any other answer no hours prompt is issued and no item is added for
\* that work-type.
C5_OnlyYesConfirms ==
    /\ [][C5_AnswerDecides]_vars
    /\ [] C5_DeclinedLeavesNothing

C5_Witness ==
    /\ Len(inputs) = 2
    /\ ~inputs[1].affirmative
    /\ line = "YES"
    /\ pc = "hours"

-----------------------------------------------------------------------------
(* C6 *)

\* A step that reads an hours text.
HoursRead == pc = "hours" /\ inputs' # inputs

C6_UnparsableIsSkipped ==
    (HoursRead /\ ~ParseFloat(line').ok) =>
        /\ items' = items
        /\ log' = log \o << Event("prompt hours", idx), Event("print invalid hours", idx) >>
        /\ pc' = "performed"
        /\ idx' = idx + 1

C6Parsed(entry) ==
    /\ entry.affirmative
    /\ entry.hours_text # None
    /\ ParseFloat(entry.hours_text[1]).ok

C6_ItemsFollowInputs ==
    LET wanted == SelectSeq(inputs, C6Parsed)
    IN /\ Len(items) = Len(wanted)
       /\ \A j \in 1..Len(wanted) :
             /\ items[j].work_type = wanted[j].work_type
             /\ items[j].hours = ParseFloat(wanted[j].hours_text[1]).value
       /\ (pc = "total" \/ TotalStepTaken) =>
             WorkTypes(inputs) = [k \in 1..NumTypes |-> DEFAULT_RATES[k].work_type]

\* C6: an hours text that does not parse leaves items as they are, prints the
\* warning, asks for nothing again and goes on to the next work-type; every
\* work-type is still asked, and each one's item depends on its own answer
\* and hours text only.
C6_UnparsableHoursDropped ==
    /\ [][C6_UnparsableIsSkipped]_vars
    /\ [] C6_ItemsFollowInputs

C6_Witness ==
    /\ pc = "done"
    /\ inputs[1].hours_text = Some("abc")
    /\ WorkTypes(items) = << "audiobook proofing", "extra editing" >>

-----------------------------------------------------------------------------
(* C7 *)

\* The three parts of a text "H:M:S", split at its first two colons.
RunTimeParts(text) ==
    LET c1 == IndexIn(":", text)
        rest == SubSeq(text, c1 + 1, Len(text))
        c2 == IndexIn(":", rest)
    IN [hh |-> SubSeq(text, 1, c1 - 1),
        mm |-> SubSeq(rest, 1, c2 - 1),
        ss |-> SubSeq(rest, c2 + 1, Len(rest))]

TwoDigits(part, n) == Len(part) = 2 /\ AllDigits(part) /\ NumeralVal(part) = n

\* floor(hours * k) mod 60
FloorTimesMod60(hours, k) == (hours.w * k + (hours.f * k) \div Unit) % 60

IntegerPart(hours) == IF hours.w < 0 /\ hours.f > 0 THEN hours.w + 1 ELSE hours.w

\* C7 as claimed, for the items whose hours are not negative: each of HH, MM
\* and SS is exactly two digits.
C7_EachPartExactlyTwoDigits ==
    Rendered =>
        \A k \in 1..Len(items) :
            ~IsNegative(items[k].hours) =>
                LET parts == RunTimeParts(TextAt(ItemRow(k), 3))
                IN /\ TwoDigits(parts.hh, IntegerPart(items[k].hours))
                   /\ TwoDigits(parts.mm, FloorTimesMod60(items[k].hours, 60))
                   /\ TwoDigits(parts.ss, FloorTimesMod60(items[k].hours, 3600))

\* C7 amended: MM and SS are exactly two digits; HH is the integer part of
\* hours padded with zeros to at least two characters, so it is two digits
\* for 0 <= hours < 100, longer from 100 hours on, and carries a minus sign
\* for hours <= -1.
C7_RunTimeFormat ==
    Rendered =>
        \A k \in 1..Len(items) :
            LET hours == items[k].hours
                text == TextAt(ItemRow(k), 3)
                parts == RunTimeParts(text)
                whole == IntegerPart(hours)
            IN /\ TwoDigits(parts.mm, FloorTimesMod60(hours, 60))
               /\ TwoDigits(parts.ss, FloorTimesMod60(hours, 3600))
               /\ Len(parts.hh) >= 2
               /\ whole >= 0 => /\ AllDigits(parts.hh)
                                /\ NumeralVal(parts.hh) = whole
                                /\ whole < 100 <=> Len(parts.hh) = 2
               /\ whole < 0 => /\ Char(parts.hh, 1) = "-"
                               /\ AllDigits(SubSeq(parts.hh, 2, Len(parts.hh)))
                               /\ NumeralVal(SubSeq(parts.hh, 2, Len(parts.hh))) = 0 - whole
               /\ hours = [w |-> 1, f |-> Unit \div 2] => text = "01:30:00"
               /\ hours = Zero => text = "00:00:00"

C7_Witness ==
    /\ pc = "done"
    /\ Len(items) = 3
    /\ TextAt(ItemRow(1), 3) = "01:30:00"
    /\ TextAt(ItemRow(2), 3) = "100:00:00"
    /\ TextAt(ItemRow(3), 3) = "00:00:00"

-----------------------------------------------------------------------------
(* C8 *)

SheetColumns == {c[2] : c \in DOMAIN sheet}

LengthsIn(col) ==
    {Len(sheet[c][1]) : c \in {d \in DOMAIN sheet : d[2] = col /\ sheet[d] # None}}

Longest(col) ==
    IF LengthsIn(col) = {} THEN 0
    ELSE CHOOSE m \in LengthsIn(col) : \A n \in LengthsIn(col) : n <= m

LetterOf(col) == << "A", "B", "C", "D", "E" >>[col]

\* C8: every column of the rendered sheet has the width of its longest text
\* among the cells that hold a value, plus 2.
C8_WidthIsLongestPlusTwo ==
    Rendered =>
        /\ SheetColumns = 1..5
        /\ DOMAIN widths = {LetterOf(col) : col \in SheetColumns}
        /\ \A col \in SheetColumns : widths[LetterOf(col)] = Longest(col) + 2

C8_Witness ==
    /\ pc = "done"
    /\ env.NAME = None
    /\ book_title = ""
    /\ Len(items) = 1
    /\ widths["A"] = 12
    /\ widths["B"] = 29

-----------------------------------------------------------------------------
(* C9 *)

HeaderPrompts ==
    << Event("prompt customer name", 0), Event("prompt customer address", 0),
       Event("prompt invoice date", 0), Event("prompt book title", 0) >>

\* The prompts the first n answers call for: one yes/no prompt per work-type,
\* and an hours prompt after it exactly when the answer was yes in any case.
RECURSIVE WorkPrompts(_)
WorkPrompts(n) ==
    IF n = 0 THEN << >>
    ELSE WorkPrompts(n - 1)
         \o << Event("prompt performed", n) >>
         \o (IF inputs[n].affirmative THEN << Event("prompt hours", n) >> ELSE << >>)

FileEvents == << Event("file opened", 0), Event("file written", 0) >>

HoursPending ==
    Len(inputs) > 0 /\ inputs[Len(inputs)].affirmative
                    /\ inputs[Len(inputs)].hours_text = None

FileTouched == \E i \in 1..Len(log) : log[i].e \in {"file opened", "file written"}

\* C9: the prompts come in one fixed order (four header prompts, then per
\* work-type in rate-table order one yes/no prompt and an hours prompt iff
\* the answer was affirmative); the file is opened and written only after the
\* last work-type was handled, and written once; a run that stops at a prompt
\* has produced no file.
C9_FixedOrderOfEvents ==
    LET asked == HeaderPrompts \o WorkPrompts(Len(inputs))
        due == Len(asked) - (IF HoursPending THEN 1 ELSE 0)
    IN /\ IsPrefix(Protocol, asked \o FileEvents)
       /\ Len(inputs) > 0 => Len(Protocol) >= due
       /\ WorkTypes(inputs) = [k \in 1..Len(inputs) |-> DEFAULT_RATES[k].work_type]
       /\ FileTouched => Len(inputs) = NumTypes /\ ~HoursPending
       /\ Len(files) = Cardinality({i \in 1..Len(log) : log[i].e = "file written"})
       /\ Len(files) <= 1
       /\ pc \in PromptStates => ~FileTouched /\ files = << >>
       /\ (pc = "crashed" /\ log[Len(log)].e = "input raised") =>
             ~FileTouched /\ files = << >>
       /\ pc = "done" => Protocol = asked \o FileEvents /\ Len(files) = 1

C9_Witness ==
    /\ pc = "done"
    /\ Protocol = HeaderPrompts
                  \o << Event("prompt performed", 1), Event("prompt hours", 1),
                        Event("prompt performed", 2),
                        Event("prompt performed", 3), Event("prompt hours", 3) >>
                  \o FileEvents

-----------------------------------------------------------------------------
(* C10 *)

RowsWith(col, text) == {c[1] : c \in {d \in DOMAIN sheet : d[2] = col /\ sheet[d] = Some(text)}}

RowsHoldingValue(col) == {c[1] : c \in {d \in DOMAIN sheet : d[2] = col /\ sheet[d] # None}}

\* C10: the n items are written in order in rows 11..10+n, and the TOTAL row,
\* "Please Pay" and the payment instructions are written in rows below the
\* last item row, so the item rows, the book title and the table header keep
\* what was written in them.
C10_ItemRowsThenFooter ==
    Rendered =>
        LET n == Len(items)
        IN /\ \A k \in 1..n :
                 /\ TextAt(10 + k, 1) = invoice_date
                 /\ Lower(TextAt(10 + k, 2)) = items[k].work_type
                 /\ TextAt(10 + k, 4) = FmtMoney(DecOfInt(items[k].rate))
                 /\ TextAt(10 + k, 5) = FmtMoney(items[k].total_price)
           /\ RowsHoldingValue(3) = {9} \cup (11..(10 + n))
           /\ RowsWith(4, "TOTAL") = {n + 12}
           /\ RowsHoldingValue(4) = {1, 3, 4, 9, n + 12} \cup (11..(10 + n))
           /\ TextAt(n + 12, 5) = FmtMoney(total_amount[1])
           /\ RowsWith(5, "Please Pay") = {n + 13}
           /\ RowsWith(2, "Make All Checks Payable To:") = {n + 15}
           /\ CellValue(sheet, n + 16, 2) = env.NAME
           /\ CellValue(sheet, n + 17, 2) = env.ADDRESS
           /\ CellValue(sheet, n + 18, 2) = env.CITY_STATE_ZIP
           /\ MaxRow(sheet) = n + 18
           /\ sheet[<< 10, 2 >>] = Some(book_title)
           /\ \A col \in 1..5 : TextAt(9, col) = itemized_header[col]

C10_Witness ==
    /\ pc = "done"
    /\ Len(items) = 3
    /\ TextAt(13, 2) = "Extra Editing"
    /\ TextAt(15, 4) = "TOTAL"

=============================================================================
